---- MODULE Spec2Model ----
(***************************************************************************)
(* PriorBoxLayer (paddle/gserver/layers/PriorBox.cpp): init() derives the  *)
(* aspect-ratio list and numPriors_, forward() enumerates the prior boxes  *)
(* of every cell into the scratch buffer buffer_, clips the first dim      *)
(* values, appends the variances and copies the buffer to the output.      *)
(*                                                                         *)
(* Numbers.  A float is modelled as an exact rational <<n, d>> in lowest   *)
(* terms with d >= 0; d = 0 stands for the IEEE results of a division by   *)
(* zero: <<1,0>> is +inf, <<-1,0>> is -inf and <<0,0>> is NaN.  Rounding   *)
(* of float/double arithmetic is not modelled.  sqrt of an aspect ratio is *)
(* taken componentwise, which is exact for the ratios drawn below.         *)
(* Buffers are 0-indexed in the code and 1-indexed here: the code's        *)
(* tmpPtr[i] is buffer_[i + 1].                                            *)
(*                                                                         *)
(* Inputs.  The configuration and the frame sizes of the two input layers  *)
(* are fixed when the layer is built; forward() reads the frame sizes on   *)
(* every call.  Negative frame sizes are not modelled.                     *)
(*                                                                         *)
(* Storage.  Matrix::resizeOrCreate keeps the storage of a matrix that     *)
(* already has the size asked for and initialises nothing: elements that   *)
(* no one wrote hold a value drawn from Garbage.  A store through tmpPtr   *)
(* past the end of the buffer is undefined behaviour: it either ends the   *)
(* run (pc = "crashed") or lands outside the buffer and the run goes on.   *)
(* A failing CHECK_EQ ends the run (pc = "fatal").                         *)
(*                                                                         *)
(* Steps.  One step per pass of the cell loop body, one for the clipping   *)
(* loop, one for the variance loops, one for the copy to the output.       *)
(***************************************************************************)
EXTENDS Integers, Sequences, FiniteSets

\* ------------------------------------------------------------------ bounds
MaxGrid == 2
MaxSizes == 2

\* --------------------------------------------------------------- rationals
Abs(x) == IF x < 0 THEN -x ELSE x

Sign(x) == IF x < 0 THEN -1 ELSE IF x > 0 THEN 1 ELSE 0

RECURSIVE GCD(_, _)
GCD(a, b) == IF b = 0 THEN a ELSE GCD(b, a % b)

Rat(n, d) ==
  IF d = 0 THEN <<Sign(n), 0>>
  ELSE LET g == GCD(Abs(n), Abs(d))
           s == IF d < 0 THEN -1 ELSE 1
       IN  <<(s * n) \div g, (s * d) \div g>>

Zero == <<0, 1>>
One == <<1, 1>>
Two == <<2, 1>>

RAdd(a, b) == Rat(a[1] * b[2] + b[1] * a[2], a[2] * b[2])
RSub(a, b) == Rat(a[1] * b[2] - b[1] * a[2], a[2] * b[2])
RMul(a, b) == Rat(a[1] * b[1], a[2] * b[2])
\* a finite; b = 0 gives the IEEE result (inf of a's sign, NaN for 0/0)
RDiv(a, b) == IF b[1] = 0 THEN <<Sign(a[1]), 0>> ELSE Rat(a[1] * b[2], a[2] * b[1])
RAbs(a) == <<Abs(a[1]), a[2]>>
\* a < b as the floating-point comparison: false when either side is NaN
RLess(a, b) ==
  IF a = <<0, 0>> \/ b = <<0, 0>> THEN FALSE
  ELSE IF a[2] = 0 THEN a[1] < 0 /\ b # a
  ELSE IF b[2] = 0 THEN b[1] > 0
  ELSE a[1] * b[2] < b[1] * a[2]

ISqrt(n) == CHOOSE r \in 0..n : r * r <= n /\ (r + 1) * (r + 1) > n

RSqrt(a) == Rat(ISqrt(a[1]), ISqrt(a[2]))

\* ------------------------------------------------------------------ inputs
SeqsUpTo(S, n) == UNION {[1..k -> S] : k \in 0..n}

MinVals == {1, 4}
\* max_size lists: the first k of 2, 3, 4, ... (2 * 1 and 2 * 4 are no squares)
MaxLists == {[i \in 1..k |-> i + 1] : k \in 0..MaxSizes}
RatioLists == {<<>>, << <<1, 1>> >>, << <<4, 1>> >>}
Variances == {<< <<1, 10>>, <<1, 10>>, <<1, 5>>, <<1, 5>> >>}

Configs ==
  [min_size : SeqsUpTo(MinVals, MaxSizes),
   max_size : MaxLists,
   aspect_ratio : RatioLists,
   variance : Variances]

\* <<frame width, frame height>> of input 0 (the feature map) and input 1 (the image)
GridDims == (0..MaxGrid) \X (0..MaxGrid)
ImageDims == {<<0, 1>>, <<8, 4>>}
\* what storage that was never written may hold
Garbage == {<<-3, 1>>, <<1, 2>>}

\* ------------------------------------------------------------------- state
VARIABLES
  config_,       \* the layer's priorbox_conf
  inputFrame,    \* <<getFrameWidth(), getFrameHeight()>> of getInput(0)
  imageFrame,    \* <<getFrameWidth(), getFrameHeight()>> of getInput(1)
  minSize_, maxSize_, aspectRatio_, variance_, numPriors_,
  buffer_,       \* the scratch matrix
  output,        \* the layer's output value
  pc,            \* "constructed", "idle", "enumerate", "clip", "variance",
                 \* "copy", "done", "fatal" (CHECK_EQ failed), "crashed"
  layerWidth, layerHeight, imageWidth, imageHeight, dim, idx, h, w,
  emitted,       \* history: the boxes the enumeration loops wrote, in order
  written,       \* history: positions of buffer_ stored to by this call
  maxIdx         \* history: highest index (0-based) stored to by this call

vars == <<config_, inputFrame, imageFrame, minSize_, maxSize_, aspectRatio_, variance_, numPriors_,
          buffer_, output, pc, layerWidth, layerHeight, imageWidth,
          imageHeight, dim, idx, h, w, emitted, written, maxIdx>>

fields == <<config_, inputFrame, imageFrame, minSize_, maxSize_, aspectRatio_, variance_, numPriors_>>

Init ==
  /\ config_ \in Configs
  /\ inputFrame \in GridDims
  /\ imageFrame \in ImageDims
  /\ minSize_ = <<>> /\ maxSize_ = <<>> /\ aspectRatio_ = <<>>
  /\ variance_ = <<>> /\ numPriors_ = 0
  /\ buffer_ = <<>> /\ output = <<>>
  /\ pc = "constructed"
  /\ layerWidth = 0 /\ layerHeight = 0 /\ imageWidth = 0 /\ imageHeight = 0
  /\ dim = 0 /\ idx = 0 /\ h = 0 /\ w = 0
  /\ emitted = <<>> /\ written = {} /\ maxIdx = -1

\* -------------------------------------------------------------------- init
Flip(ar) == ar \o [i \in 1..Len(ar) |-> RDiv(One, ar[i])] \o <<One>>

NumPriorsNoMax(ar, maxS) == Len(ar)

NumPriors(ar, maxS) == Len(ar) + (IF Len(maxS) > 0 THEN 1 ELSE 0)

InitLayer ==
  /\ pc = "constructed"
  /\ minSize_' = config_.min_size
  /\ maxSize_' = config_.max_size
  /\ variance_' = config_.variance
  /\ aspectRatio_' = Flip(config_.aspect_ratio)
  /\ numPriors_' = NumPriors(Flip(config_.aspect_ratio), config_.max_size)
  /\ pc' = "idle"
  /\ UNCHANGED <<config_, inputFrame, imageFrame, buffer_, output, layerWidth, layerHeight, imageWidth,
                 imageHeight, dim, idx, h, w, emitted, written, maxIdx>>

\* ----------------------------------------------------------------- forward
Tolerance == <<1, 1000000>>

\* fabs(ar - 1.) < 1e-6
IsUnity(ar) == RLess(RAbs(RSub(ar, One)), Tolerance)

\* the four values written for one box of the cell (ch, cw)
Coords(ch, cw, boxWidth, boxHeight) ==
  LET stepW == RDiv(Rat(imageWidth, 1), Rat(layerWidth, 1))
      stepH == RDiv(Rat(imageHeight, 1), Rat(layerHeight, 1))
      centerX == RMul(Rat(2 * cw + 1, 2), stepW)
      centerY == RMul(Rat(2 * ch + 1, 2), stepH)
      iw == Rat(imageWidth, 1)
      ih == Rat(imageHeight, 1)
  IN  << RDiv(RSub(centerX, RDiv(boxWidth, Two)), iw),
         RDiv(RSub(centerY, RDiv(boxHeight, Two)), ih),
         RDiv(RAdd(centerX, RDiv(boxWidth, Two)), iw),
         RDiv(RAdd(centerY, RDiv(boxHeight, Two)), ih) >>

\* one box written by the cell (ch, cw): the loop variables and box locals
Box(ch, cw, boxWidth, boxHeight) ==
  [h |-> ch, w |-> cw, boxWidth |-> boxWidth, boxHeight |-> boxHeight]

\* int boxWidth = minSize
FirstPrior(ch, cw, minSize) == Box(ch, cw, Rat(minSize, 1), Rat(minSize, 1))

\* boxWidth = boxHeight = sqrt(minSize * maxSize), stored in an int
SecondPrior(ch, cw, minSize, maxSize) ==
  Box(ch, cw, Rat(ISqrt(minSize * maxSize), 1), Rat(ISqrt(minSize * maxSize), 1))

SecondPriorsOnce(ch, cw, minSize, s) ==
  IF s > 1 THEN <<>> ELSE <<SecondPrior(ch, cw, minSize, maxSize_[s])>>

\* the inner loop over maxSize_, from index s (1-based) on
RECURSIVE SecondPriors(_, _, _, _)
SecondPriors(ch, cw, minSize, s) ==
  IF s > Len(maxSize_) THEN <<>>
  ELSE <<SecondPrior(ch, cw, minSize, maxSize_[s])>>
       \o SecondPriors(ch, cw, minSize, s + 1)

\* the loop over minSize_, from index s (1-based) on; CHECK_EQ holds
RECURSIVE SizePairPriors(_, _, _)
SizePairPriors(ch, cw, s) ==
  IF s > Len(minSize_) THEN <<>>
  ELSE <<FirstPrior(ch, cw, minSize_[s])>>
       \o (IF Len(maxSize_) > 0 THEN SecondPriors(ch, cw, minSize_[s], 1) ELSE <<>>)
       \o SizePairPriors(ch, cw, s + 1)

FirstMinSize == IF Len(minSize_) = 0 THEN 0 ELSE minSize_[1]

\* the local minSize when the loop over minSize_ has ended
FinalMinSize == IF Len(minSize_) = 0 THEN 0 ELSE minSize_[Len(minSize_)]

\* the loop over aspectRatio_, from index r (1-based) on
RECURSIVE RestPriors(_, _, _, _)
RestPriors(ch, cw, minSize, r) ==
  IF r > Len(aspectRatio_) THEN <<>>
  ELSE (IF IsUnity(aspectRatio_[r]) THEN <<>>
        ELSE <<Box(ch, cw, RMul(Rat(minSize, 1), RSqrt(aspectRatio_[r])),
                   RDiv(Rat(minSize, 1), RSqrt(aspectRatio_[r])))>>)
       \o RestPriors(ch, cw, minSize, r + 1)

\* CHECK_EQ(minSize_.size(), maxSize_.size()) is reached and fails
CheckFails ==
  /\ Len(minSize_) > 0
  /\ Len(maxSize_) > 0
  /\ Len(minSize_) # Len(maxSize_)

\* the boxes one pass of the cell loop body writes
CellPriors(ch, cw) ==
  IF CheckFails THEN <<FirstPrior(ch, cw, minSize_[1])>>
  ELSE SizePairPriors(ch, cw, 1) \o RestPriors(ch, cw, FinalMinSize, 1)

BoxCoords(b) == Coords(b.h, b.w, b.boxWidth, b.boxHeight)

\* the values the boxes put at tmpPtr[idx++], in order
RECURSIVE Flat(_)
Flat(boxes) ==
  IF boxes = <<>> THEN <<>> ELSE BoxCoords(Head(boxes)) \o Flat(Tail(boxes))

\* tmpPtr[at], tmpPtr[at+1], ... = vals; a store past the end leaves buffer_ alone
WriteAt(buf, at, vals) ==
  [i \in 1..Len(buf) |-> IF at < i /\ i <= at + Len(vals) THEN vals[i - at] ELSE buf[i]]

Stored(buf, at, n) == {i \in 1..Len(buf) : at < i /\ i <= at + n}

\* std::min(std::max(v, 0), 1)
Clip(v) == IF RLess(v, Zero) THEN Zero ELSE IF RLess(One, v) THEN One ELSE v

\* a matrix of n elements on the storage of m: what m held stays, the rest is
\* not initialised (holds g)
ResizeOrCreate(m, n, g) == [i \in 1..n |-> IF i <= Len(m) THEN m[i] ELSE g]

ForwardBegin ==
  /\ pc \in {"idle", "done"}
  /\ layerWidth' = inputFrame[1]
  /\ layerHeight' = inputFrame[2]
  /\ imageWidth' = imageFrame[1]
  /\ imageHeight' = imageFrame[2]
  /\ dim' = inputFrame[2] * inputFrame[1] * numPriors_ * 4
  /\ \E g \in Garbage :
       /\ output' = ResizeOrCreate(output, 2 * dim', g)
       /\ buffer_' = ResizeOrCreate(buffer_, 2 * dim', g)
  /\ pc' = IF inputFrame[1] > 0 /\ inputFrame[2] > 0 THEN "enumerate" ELSE "clip"
  /\ idx' = 0 /\ h' = 0 /\ w' = 0
  /\ emitted' = <<>> /\ written' = {} /\ maxIdx' = -1
  /\ UNCHANGED fields

\* one pass of the body of the loops over h and w
EmitCell ==
  /\ pc = "enumerate"
  /\ \E boxes \in {CellPriors(h, w)} : \E vals \in {Flat(boxes)} :
     LET last == (w + 1 = layerWidth) /\ (h + 1 = layerHeight)
     IN  /\ buffer_' = WriteAt(buffer_, idx, vals)
         /\ idx' = idx + Len(vals)
         /\ emitted' = emitted \o boxes
         /\ written' = written \cup Stored(buffer_, idx, Len(vals))
         /\ maxIdx' = IF Len(vals) > 0 THEN idx + Len(vals) - 1 ELSE maxIdx
         /\ w' = IF w + 1 = layerWidth THEN 0 ELSE w + 1
         /\ h' = IF w + 1 = layerWidth THEN h + 1 ELSE h
         /\ pc' \in (IF idx + Len(vals) > Len(buffer_) THEN {"crashed"} ELSE {})
                    \cup {IF CheckFails THEN "fatal"
                          ELSE IF last THEN "clip" ELSE "enumerate"}
  /\ UNCHANGED <<fields, output, layerWidth, layerHeight, imageWidth,
                 imageHeight, dim>>

\* for (d = 0; d < dim; ++d) tmpPtr[d] = min(max(tmpPtr[d], 0), 1)
ClipLoop ==
  /\ pc = "clip"
  /\ buffer_' = [i \in 1..Len(buffer_) |-> IF i <= dim THEN Clip(buffer_[i]) ELSE buffer_[i]]
  /\ written' = written \cup (1..dim)
  /\ maxIdx' = IF dim - 1 > maxIdx THEN dim - 1 ELSE maxIdx
  /\ pc' = "variance"
  /\ UNCHANGED <<fields, output, layerWidth, layerHeight, imageWidth,
                 imageHeight, dim, idx, h, w, emitted>>

\* the loops over h, w, i < numPriors_ and j < 4 that store variance_[j]
VarianceLoop ==
  /\ pc = "variance"
  /\ \E vals \in {[i \in 1..(4 * layerHeight * layerWidth * numPriors_) |->
                       variance_[((i - 1) % 4) + 1]]} :
     LET n == layerHeight * layerWidth * numPriors_
     IN  /\ buffer_' = WriteAt(buffer_, idx, vals)
         /\ idx' = idx + 4 * n
         /\ written' = written \cup Stored(buffer_, idx, 4 * n)
         /\ maxIdx' = IF n > 0 /\ idx + 4 * n - 1 > maxIdx THEN idx + 4 * n - 1 ELSE maxIdx
         /\ pc' \in (IF idx + 4 * n > Len(buffer_) THEN {"crashed"} ELSE {}) \cup {"copy"}
  /\ UNCHANGED <<fields, output, layerWidth, layerHeight, imageWidth,
                 imageHeight, dim, h, w, emitted>>

\* outV->copyFrom(buffer_->data_, dim * 2)
CopyOut ==
  /\ pc = "copy"
  /\ output' = [i \in 1..(2 * dim) |-> buffer_[i]]
  /\ pc' = "done"
  /\ UNCHANGED <<fields, buffer_, layerWidth, layerHeight, imageWidth,
                 imageHeight, dim, idx, h, w, emitted, written, maxIdx>>

Next ==
  \/ InitLayer
  \/ ForwardBegin
  \/ EmitCell
  \/ ClipLoop
  \/ VarianceLoop
  \/ CopyOut

Spec == Init /\ [][Next]_vars

\* ------------------------------------------------------------- vocabulary
\* maxSizes is empty or as long as minSizes
ValidConfig == Len(maxSize_) = 0 \/ Len(maxSize_) = Len(minSize_)

HasCells == layerWidth > 0 /\ layerHeight > 0

PositiveDims == HasCells /\ imageWidth > 0 /\ imageHeight > 0

Cells == layerHeight * layerWidth

\* the derived ratios within 1e-6 of 1.0
UnityCount == Cardinality({r \in 1..Len(aspectRatio_) : IsUnity(aspectRatio_[r])})

ActualPriorsPerCell ==
  Len(minSize_) * (1 + Len(maxSize_)) + (Len(aspectRatio_) - UnityCount)

Running == pc \in {"enumerate", "clip", "variance", "copy", "done"}

PastEnumeration == pc \in {"clip", "variance", "copy", "done"}

InUnit(v) == v[2] > 0 /\ 0 <= v[1] /\ v[1] <= v[2]

\* ---------------------------------------------------------------- claim C1
\* C1: for a valid configuration and a grid with at least one cell, when the
\* enumeration loops have ended the write index is 4 times
\* grid.height * grid.width * actualPriorsPerCell, and that many boxes were
\* written.
C1_Count ==
  (pc = "clip" /\ ValidConfig /\ HasCells) =>
    /\ idx = 4 * (Cells * ActualPriorsPerCell)
    /\ Len(emitted) = Cells * ActualPriorsPerCell

\* two minimum sizes, two maximum sizes, several unity ratios, four cells
C1_Witness ==
  /\ pc = "clip" /\ ValidConfig
  /\ Len(minSize_) = 2 /\ Len(maxSize_) = 2
  /\ UnityCount > 1
  /\ layerWidth = 2 /\ layerHeight = 2
  /\ idx = 96

\* ---------------------------------------------------------------- claim C2
\* C2: after a generation call with a valid configuration and positive
\* dimensions the output is fully populated and its length is
\* 2 * grid.height * grid.width * actualPriorsPerCell * 4.
C2_Length ==
  (pc = "done" /\ ValidConfig /\ Len(minSize_) > 0 /\ PositiveDims) =>
    /\ Len(output) = 2 * Cells * ActualPriorsPerCell * 4
    /\ \A i \in 1..Len(output) : i \in written

\* ---------------------------------------------------------------- claim C3
\* C3: after generation every coordinate the enumeration loops wrote is in
\* [0, 1] in the output; one that was below 0 is 0 and one that was above 1
\* is 1.
C3_Range ==
  (pc = "done" /\ ValidConfig /\ PositiveDims) =>
    LET raw == Flat(emitted)
    IN  \A i \in 1..Len(raw) :
          i <= Len(output) =>
            /\ InUnit(output[i])
            /\ RLess(raw[i], Zero) => output[i] = Zero
            /\ RLess(One, raw[i]) => output[i] = One

\* ---------------------------------------------------------------- claim C4
\* C4: after generation the second half of the output is
\* grid.height * grid.width * actualPriorsPerCell copies of the variance
\* vector.
C4_Variance ==
  (pc = "done" /\ ValidConfig /\ Len(minSize_) > 0 /\ PositiveDims) =>
    /\ Len(output) = 2 * dim
    /\ dim = 4 * (Cells * ActualPriorsPerCell)
    /\ \A i \in (dim + 1)..Len(output) : output[i] = variance_[((i - dim - 1) % 4) + 1]

\* ---------------------------------------------------------------- claim C5
\* C5: when maxSizes is non-empty and its length differs from that of
\* minSizes (minSizes may be empty), a generation call on a grid with at
\* least one cell ends in the fatal check: it never gets past the enumeration
\* loops and delivers nothing.
C5_Fatal ==
  (Len(maxSize_) > 0 /\ Len(maxSize_) # Len(minSize_) /\ PositiveDims) => ~PastEnumeration

\* ---------------------------------------------------------------- claim C6
\* C6: a generation call with a grid or image dimension that is zero or
\* negative aborts at once: it writes nothing and delivers nothing.
C6_Precondition ==
  (inputFrame[1] <= 0 \/ inputFrame[2] <= 0 \/ imageFrame[1] <= 0 \/ imageFrame[2] <= 0)
    => ~Running

\* ---------------------------------------------------------------- claim C7
\* C7: what a call delivers depends on its inputs alone: every position of
\* the delivered buffer has been written by the call that delivers it, none
\* holds what the scratch buffer held before.
C7_Determinism ==
  (pc = "done" /\ ValidConfig /\ Len(minSize_) > 0 /\ PositiveDims) =>
    written = 1..Len(output)

\* ---------------------------------------------------------------- claim C8
SingleMinSize == Len(minSize_) = 1 /\ Len(maxSize_) <= 1

\* no derived ratio but the trailing 1.0 is within 1e-6 of 1.0
OnlyTrailingUnity == \A r \in 1..(Len(aspectRatio_) - 1) : ~IsUnity(aspectRatio_[r])

\* C8 as stated: in a call with positive dimensions, with one minimum size and maxSizes empty or of length 1 the
\* nominal prior count is the number of priors written per cell, and the
\* coordinate block ends at the midpoint of the buffer.
C8_Original ==
  (pc = "clip" /\ SingleMinSize /\ PositiveDims) =>
    /\ Len(emitted) = Cells * numPriors_
    /\ idx = dim

\* C8 as amended: the same, for configurations in which no raw aspect ratio
\* and no reciprocal of one is within 1e-6 of 1.0.
C8_Coincide ==
  (pc = "clip" /\ SingleMinSize /\ OnlyTrailingUnity /\ PositiveDims) =>
    /\ Len(emitted) = Cells * numPriors_
    /\ idx = dim

C8_Witness ==
  /\ pc = "clip" /\ SingleMinSize /\ OnlyTrailingUnity /\ PositiveDims
  /\ Len(maxSize_) = 1 /\ Len(aspectRatio_) = 3
  /\ layerWidth = 2 /\ layerHeight = 2
  /\ idx = 64

\* ---------------------------------------------------------------- claim C9
\* the derived ratios that are not skipped, in derived order
KeptRatios == SelectSeq(aspectRatio_, LAMBDA ar : ~IsUnity(ar))

\* the p-th box (from 0) of a cell, as the claim describes it
ExpectedSize(p) ==
  LET perMin == 1 + Len(maxSize_)
      pairs == Len(minSize_) * perMin
  IN  IF p < pairs
      THEN LET m == minSize_[(p \div perMin) + 1]
               j == p % perMin
               side == IF j = 0 THEN m ELSE ISqrt(m * maxSize_[j])
           IN  <<Rat(side, 1), Rat(side, 1)>>
      ELSE LET m == minSize_[Len(minSize_)]
               root == RSqrt(KeptRatios[p - pairs + 1])
           IN  <<RMul(Rat(m, 1), root), RDiv(Rat(m, 1), root)>>

C10_InBounds ==
  (Running /\ ValidConfig /\ PositiveDims) => (maxIdx < 2 * dim /\ idx <= 2 * dim)

====
